---- MODULE Spec2Model ----
(***************************************************************************)
(* Model of ai_cv_vertetajs.py: a batch pipeline that reads a job          *)
(* description and candidate CV files, asks a completion service for a     *)
(* JSON judgment per candidate and writes a JSON and a Markdown report.    *)
(*                                                                         *)
(* Texts are sequences of lexical units (one TLA+ string per unit).  The   *)
(* unit alphabet is chosen so that two adjacent units never fuse into one  *)
(* JSON lexeme.  Python values are records [kind, s, items] of one shape.  *)
(***************************************************************************)
EXTENDS Integers, Sequences, FiniteSets, TLC

\* ------------------------------------------------------------------------
\* Lexical units
\* ------------------------------------------------------------------------
LB == "{"
RB == "}"
LS == "["
RS == "]"
COLON == ":"
COMMA == ","
QUOTE == "\""
BSL == "\\"
LF == "\n"
SP == " "

Whitespace == {SP, LF}
NumberUnits == {"0", "5", "72", "100"}
FloatConstants == {"NaN", "Infinity", "-Infinity"}

\* ------------------------------------------------------------------------
\* Python values
\* ------------------------------------------------------------------------
PyStr(s) == [kind |-> "str", s |-> s, items |-> <<>>]
PyInt(u) == [kind |-> "int", s |-> <<u>>, items |-> <<>>]
PyFloat(u) == [kind |-> "float", s |-> <<u>>, items |-> <<>>]
PyNone == [kind |-> "None", s |-> <<>>, items |-> <<>>]
PyList(xs) == [kind |-> "list", s |-> <<>>, items |-> xs]
\* a dict keeps its keys in insertion order: items is a sequence of pairs
PyItem(k, v) == [kind |-> "item", s |-> k, items |-> <<v>>]
PyDict(its) == [kind |-> "dict", s |-> <<>>, items |-> its]

HasKey(d, k) == \E n \in 1..Len(d.items) : d.items[n].s = k

\* a lookup that falls back to the default for a falsy value as well
DictGetOr(d, k, default) ==
  IF HasKey(d, k)
     /\ (d.items[CHOOSE n \in 1..Len(d.items) : d.items[n].s = k]).items[1]
          \notin {PyInt("0"), PyStr(<<>>), PyList(<<>>)}
  THEN (d.items[CHOOSE n \in 1..Len(d.items) : d.items[n].s = k]).items[1]
  ELSE default

\* dict.get(k, default)
DictGet(d, k, default) ==
  IF HasKey(d, k)
  THEN (d.items[CHOOSE n \in 1..Len(d.items) : d.items[n].s = k]).items[1]
  ELSE default

\* d[k] = v : an existing key keeps its position, a new key is appended
DictSet(d, k, v) ==
  IF HasKey(d, k)
  THEN PyDict([n \in 1..Len(d.items) |->
                 IF d.items[n].s = k THEN PyItem(k, v) ELSE d.items[n]])
  ELSE PyDict(Append(d.items, PyItem(k, v)))

\* ------------------------------------------------------------------------
\* json.loads : a recursive-descent decoder over unit sequences.
\* A result is [ok, val, rest]; ok = FALSE stands for JSONDecodeError.
\* consts is the set of number literals outside the JSON grammar that the
\* decoder accepts.
\* ------------------------------------------------------------------------
Fail == [ok |-> FALSE, val |-> PyNone, rest |-> <<>>]
Ok(v, r) == [ok |-> TRUE, val |-> v, rest |-> r]

RECURSIVE SkipWs(_)
SkipWs(s) ==
  IF s # <<>> /\ Head(s) \in Whitespace THEN SkipWs(Tail(s)) ELSE s

\* s starts right after the opening quote; strict mode rejects a raw LF
RECURSIVE ScanString(_, _)
ScanString(s, acc) ==
  IF s = <<>> THEN Fail
  ELSE IF Head(s) = QUOTE THEN Ok(PyStr(acc), Tail(s))
  ELSE IF Head(s) = LF THEN Fail
  ELSE IF Head(s) = BSL
       THEN IF Len(s) < 2 THEN Fail
            ELSE IF s[2] \in {QUOTE, BSL, "/"}
                 THEN ScanString(Tail(Tail(s)), Append(acc, s[2]))
            ELSE IF s[2] = "n"
                 THEN ScanString(Tail(Tail(s)), Append(acc, LF))
            ELSE Fail
  ELSE ScanString(Tail(s), Append(acc, Head(s)))

RECURSIVE ParseValue(_, _)
RECURSIVE ParseMembers(_, _, _)
RECURSIVE ParseElements(_, _, _)

ParseValue(s0, consts) ==
  LET s == SkipWs(s0) IN
  IF s = <<>> THEN Fail
  ELSE IF Head(s) = QUOTE THEN ScanString(Tail(s), <<>>)
  ELSE IF Head(s) = LB
       THEN IF SkipWs(Tail(s)) # <<>> /\ Head(SkipWs(Tail(s))) = RB
            THEN Ok(PyDict(<<>>), Tail(SkipWs(Tail(s))))
            ELSE ParseMembers(Tail(s), PyDict(<<>>), consts)
  ELSE IF Head(s) = LS
       THEN IF SkipWs(Tail(s)) # <<>> /\ Head(SkipWs(Tail(s))) = RS
            THEN Ok(PyList(<<>>), Tail(SkipWs(Tail(s))))
            ELSE ParseElements(Tail(s), <<>>, consts)
  ELSE IF Head(s) \in consts THEN Ok(PyFloat(Head(s)), Tail(s))
  ELSE IF Head(s) = "null" THEN Ok(PyNone, Tail(s))
  ELSE IF Head(s) \in NumberUnits THEN Ok(PyInt(Head(s)), Tail(s))
  ELSE Fail

\* s0 starts where a "key": value pair is expected
ParseMembers(s0, d, consts) ==
  LET s == SkipWs(s0) IN
  IF s = <<>> \/ Head(s) # QUOTE THEN Fail
  ELSE LET k == ScanString(Tail(s), <<>>) IN
       IF ~k.ok THEN Fail
       ELSE LET c == SkipWs(k.rest) IN
            IF c = <<>> \/ Head(c) # COLON THEN Fail
            ELSE LET v == ParseValue(Tail(c), consts) IN
                 IF ~v.ok THEN Fail
                 ELSE LET e == SkipWs(v.rest)
                          d2 == DictSet(d, k.val.s, v.val)
                      IN IF e = <<>> THEN Fail
                         ELSE IF Head(e) = RB THEN Ok(d2, Tail(e))
                         ELSE IF Head(e) = COMMA THEN ParseMembers(Tail(e), d2, consts)
                         ELSE Fail

\* s0 starts where a list element is expected
ParseElements(s0, xs, consts) ==
  LET v == ParseValue(s0, consts) IN
  IF ~v.ok THEN Fail
  ELSE LET e == SkipWs(v.rest)
           xs2 == Append(xs, v.val)
       IN IF e = <<>> THEN Fail
          ELSE IF Head(e) = RS THEN Ok(PyList(xs2), Tail(e))
          ELSE IF Head(e) = COMMA THEN ParseElements(Tail(e), xs2, consts)
          ELSE Fail

\* one value, then nothing but whitespace; consts is the set of
\* non-finite number literals the decoder accepts
Decode(text, consts) ==
  LET r == ParseValue(text, consts) IN
  IF r.ok /\ SkipWs(r.rest) = <<>> THEN Ok(r.val, <<>>) ELSE Fail

\* json.loads(text): Python's decoder accepts NaN, Infinity and -Infinity
json_loads(text) == Decode(text, FloatConstants)

\* ------------------------------------------------------------------------
\* json.dump(dati, f, ensure_ascii=False, indent=2)
\* ------------------------------------------------------------------------
RECURSIVE Spaces(_)
Spaces(n) == IF n = 0 THEN <<>> ELSE <<SP>> \o Spaces(n - 1)

Newline(level) == <<LF>> \o Spaces(2 * level)

\* ensure_ascii=False: only the quote, the backslash and control
\* characters are escaped
RECURSIVE EscapeStr(_)
EscapeStr(s) ==
  IF s = <<>> THEN <<>>
  ELSE (IF Head(s) = QUOTE THEN <<BSL, QUOTE>>
        ELSE IF Head(s) = BSL THEN <<BSL, BSL>>
        ELSE IF Head(s) = LF THEN <<BSL, "n">>
        ELSE <<Head(s)>>) \o EscapeStr(Tail(s))

EncodeStr(s) == <<QUOTE>> \o EscapeStr(s) \o <<QUOTE>>

RECURSIVE Dump(_, _)
RECURSIVE DumpSeq(_, _, _)

\* the items of a non-empty container from position n on, one per line
DumpSeq(its, n, level) ==
  LET it == its[n]
      one == IF it.kind = "item"
             THEN EncodeStr(it.s) \o <<COLON, SP>> \o Dump(it.items[1], level)
             ELSE Dump(it, level)
  IN IF n = Len(its) THEN one
     ELSE one \o <<COMMA>> \o Newline(level) \o DumpSeq(its, n + 1, level)

Dump(v, level) ==
  IF v.kind = "str" THEN EncodeStr(v.s)
  ELSE IF v.kind \in {"int", "float"} THEN v.s
  ELSE IF v.kind = "None" THEN <<"null">>
  ELSE IF v.kind = "list"
       THEN IF v.items = <<>> THEN <<LS, RS>>
            ELSE <<LS>> \o Newline(level + 1) \o DumpSeq(v.items, 1, level + 1)
                 \o Newline(level) \o <<RS>>
  ELSE IF v.items = <<>> THEN <<LB, RB>>
       ELSE <<LB>> \o Newline(level + 1) \o DumpSeq(v.items, 1, level + 1)
            \o Newline(level) \o <<RB>>

json_dump(dati) == Dump(dati, 0)

\* ------------------------------------------------------------------------
\* str() and repr() as the f-strings of the report apply them
\* ------------------------------------------------------------------------
RECURSIVE ReprEscape(_)
ReprEscape(s) ==
  IF s = <<>> THEN <<>>
  ELSE (IF Head(s) = BSL THEN <<BSL, BSL>>
        ELSE IF Head(s) = LF THEN <<BSL, "n">>
        ELSE <<Head(s)>>) \o ReprEscape(Tail(s))

FloatStr(u) ==
  IF u = "NaN" THEN "nan" ELSE IF u = "Infinity" THEN "inf" ELSE "-inf"

RECURSIVE Repr(_)
RECURSIVE ReprSeq(_, _)

ReprSeq(its, n) ==
  LET it == its[n]
      one == IF it.kind = "item"
             THEN <<"'">> \o ReprEscape(it.s) \o <<"'", COLON, SP>>
                  \o Repr(it.items[1])
             ELSE Repr(it)
  IN IF n = Len(its) THEN one
     ELSE one \o <<COMMA, SP>> \o ReprSeq(its, n + 1)

Repr(v) ==
  IF v.kind = "str" THEN <<"'">> \o ReprEscape(v.s) \o <<"'">>
  ELSE IF v.kind = "int" THEN v.s
  ELSE IF v.kind = "float" THEN <<FloatStr(v.s[1])>>
  ELSE IF v.kind = "None" THEN <<"None">>
  ELSE IF v.kind = "list"
       THEN <<LS>> \o (IF v.items = <<>> THEN <<>> ELSE ReprSeq(v.items, 1))
            \o <<RS>>
  ELSE <<LB>> \o (IF v.items = <<>> THEN <<>> ELSE ReprSeq(v.items, 1))
       \o <<RB>>

\* str(v): a string is shown as it is, everything else as its repr
Str(v) == IF v.kind = "str" THEN v.s ELSE Repr(v)

\* ------------------------------------------------------------------------
\* Files and nolasit_failu
\* ------------------------------------------------------------------------
RECURSIVE RStrip(_)
RStrip(s) ==
  IF s # <<>> /\ s[Len(s)] \in Whitespace
  THEN RStrip(SubSeq(s, 1, Len(s) - 1)) ELSE s

\* str.strip()
Strip(s) == RStrip(SkipWs(s))

\* a directory entry: no entry, an entry that cannot be opened because its
\* target is gone, a file that cannot be read, or a readable file
FileAbsent == [st |-> "absent", content |-> <<>>]
FileDangling == [st |-> "dangling", content |-> <<>>]
FileUnreadable == [st |-> "unreadable", content |-> <<>>]
FileOf(content) == [st |-> "file", content |-> content]

\* the result of a call: raised names the exception that escapes it
Return(v) == [raised |-> "", val |-> v]
Raise(e, v) == [raised |-> e, val |-> v]

\* only FileNotFoundError is caught; any other failure of open() or
\* read() leaves the function as an exception
nolasit_failu(f) ==
  IF f.st \in {"absent", "dangling"} THEN Return(<<>>)
  ELSE IF f.st = "unreadable" THEN Raise("PermissionError", <<>>)
  ELSE Return(Strip(f.content))

\* ------------------------------------------------------------------------
\* izveidot_promptu
\* ------------------------------------------------------------------------
PromptHead == "Tu esi HR specialists ... sniedz precizu JSON atbildi"
JdHeading == "=== DARBA APRAKSTS ==="
CvHeading == "=== KANDIDATA CV ==="

izveidot_promptu(jd_texts, cv_texts) ==
  Strip(<<LF, PromptHead, LF, LF, JdHeading, LF>> \o jd_texts
        \o <<LF, LF, CvHeading, LF>> \o cv_texts \o <<LF>>)

\* ------------------------------------------------------------------------
\* izsaukt_modeli
\* ------------------------------------------------------------------------
ErrorKey == <<"error">>
RawKey == <<"raw_response">>

ErrorRecord(msg) == PyDict(<<PyItem(ErrorKey, PyStr(msg))>>)
InvalidJsonRecord(text) ==
  PyDict(<<PyItem(ErrorKey, PyStr(<<"Invalid JSON">>)),
           PyItem(RawKey, PyStr(text))>>)

NoneTypeMessage ==
  <<"the JSON object must be str, bytes or bytearray, not NoneType">>

\* OpenAI(api_key=API_KEY): the client refuses to be built without a key
ClientRaises(key) == key = "None"

\* what chat.completions.create does: it raises (body is str(e)), or it
\* answers with a message whose content is None or a text (body)
ServiceRaises(body) == [t |-> "raise", body |-> body]
ServiceNone == [t |-> "none", body |-> <<>>]
ServiceText(body) == [t |-> "text", body |-> body]

\* the inner try: json.loads, with JSONDecodeError turned into a record
ParseResponse(text) ==
  LET r == json_loads(text) IN
  IF r.ok THEN r.val ELSE InvalidJsonRecord(text)

izsaukt_modeli(key, outcome) ==
  IF ClientRaises(key) THEN Raise("OpenAIError", PyNone)
  ELSE IF outcome.t = "raise" THEN Return(ErrorRecord(outcome.body))
  ELSE IF outcome.t = "none" THEN Return(ErrorRecord(NoneTypeMessage))
  ELSE Return(ParseResponse(outcome.body))

\* ------------------------------------------------------------------------
\* saglabat_json and genereet_parskatu
\* ------------------------------------------------------------------------
saglabat_json(dati) == json_dump(dati)

Title == "# CV Atbilstibas Parskats"
DateLabel == "**Datums:** "
ScoreLabel == "**Atbilstibas punktu skaits:** "
SummaryHeading == "### Kopsavilkums"
StrengthsHeading == "### Stipras puses"
MissingHeading == "### Trukstosas prasibas"
VerdictHeading == "### Spriedums"
Rule == <<LF, LF, "---", LF, LF>>

NoScore == <<"N/A">>
NoSummary == <<"Nav kopsavilkuma.">>
NoItems == <<"Nav noradits.">>
NoVerdict == <<"Nav sprieduma.">>

ScoreKey == <<"match_score">>
SummaryKey == <<"summary">>
StrengthsKey == <<"strengths">>
MissingKey == <<"missing_requirements">>
VerdictKey == <<"verdict">>

\* what a for loop over v yields; None and numbers cannot be iterated
Iterable(v) == v.kind \in {"list", "str", "dict"}
Iter(v) ==
  IF v.kind = "list" THEN v.items
  ELSE IF v.kind = "str" THEN [n \in 1..Len(v.s) |-> PyStr(<<v.s[n]>>)]
  ELSE [n \in 1..Len(v.items) |-> PyStr(v.items[n].s)]

RECURSIVE JoinLines(_)
JoinLines(xs) ==
  IF xs = <<>> THEN <<>>
  ELSE <<"- ">> \o Str(Head(xs)) \o <<LF>> \o JoinLines(Tail(xs))

\* "".join(f"- {s}\n" for s in v) or "Nav noradits."
ItemLines(v) ==
  IF JoinLines(Iter(v)) = <<>> THEN NoItems ELSE JoinLines(Iter(v))

Parskats(dati, now) ==
  <<Title, LF, LF, DateLabel, now, LF, ScoreLabel>>
  \o Str(DictGet(dati, ScoreKey, PyStr(NoScore))) \o Rule
  \o <<SummaryHeading, LF>>
  \o Str(DictGet(dati, SummaryKey, PyStr(NoSummary))) \o Rule
  \o <<StrengthsHeading, LF>>
  \o ItemLines(DictGet(dati, StrengthsKey, PyList(<<>>))) \o Rule
  \o <<MissingHeading, LF>>
  \o ItemLines(DictGet(dati, MissingKey, PyList(<<>>))) \o Rule
  \o <<VerdictHeading, LF, "**">>
  \o Str(DictGet(dati, VerdictKey, PyStr(NoVerdict))) \o <<"**", LF>>

\* the text written to the report file, or the exception that escapes
genereet_parskatu(dati, now) ==
  IF dati.kind # "dict" THEN Raise("AttributeError", <<>>)
  ELSE IF ~Iterable(DictGet(dati, StrengthsKey, PyList(<<>>)))
          \/ ~Iterable(DictGet(dati, MissingKey, PyList(<<>>)))
       THEN Raise("TypeError", <<>>)
  ELSE Return(Strip(Parskats(dati, now)))

\* ------------------------------------------------------------------------
\* The file system
\* ------------------------------------------------------------------------
Cv1 == <<"c", "v", "1", ".", "t", "x", "t">>
CvA == <<"c", "v", ".", "a", ".", "t", "x", "t">>
CvB == <<"c", "v", ".", "b", ".", "t", "x", "t">>
JdName == <<"j", "d", ".", "t", "x", "t">>

CvNames == {Cv1, CvA, CvB}
DirNames == CvNames \cup {JdName}

\* at most MaxCands of the names of CvNames have a directory entry
MaxCands == 2
\* the lists of a judgment hold at most MaxItems strings
MaxItems == 1

\* Path("sample_inputs").glob("cv*.txt")
GlobMatch(name) ==
  /\ Len(name) >= 6
  /\ SubSeq(name, 1, 2) = <<"c", "v">>
  /\ SubSeq(name, Len(name) - 3, Len(name)) = <<".", "t", "x", "t">>

\* cv.split(".")[0]
RECURSIVE SplitFirst(_)
SplitFirst(name) ==
  IF name = <<>> \/ Head(name) = "." THEN <<>>
  ELSE <<Head(name)>> \o SplitFirst(Tail(name))

JsonPath(cv) == <<"outputs/">> \o SplitFirst(cv) \o <<".json">>
MdPath(cv) == <<"outputs/">> \o SplitFirst(cv) \o <<"_report.md">>

OutputPaths == {JsonPath(n) : n \in CvNames} \cup {MdPath(n) : n \in CvNames}

JdContents == {<<SP, LF>>, <<"Senior backend engineer, 5 years Go", LF>>}
CvContents(n) == {<<>>, <<SP, LF>>, <<LF, "CV of ">> \o n \o <<SP>>}

JdStates ==
  {FileAbsent, FileDangling, FileUnreadable} \cup {FileOf(c) : c \in JdContents}
CvStates(n) ==
  {FileAbsent, FileDangling, FileUnreadable}
  \cup {FileOf(c) : c \in CvContents(n)}

\* what a previous run may have left behind
Stale == FileOf(<<"stale">>)

\* ------------------------------------------------------------------------
\* The completion service
\* ------------------------------------------------------------------------
Labels == {"strong match", "possible match", "not a match"}
ItemTexts == {"Go expertise", "5 years seniority"}

Judgment(score, summary, strengths, missing, verdict) ==
  PyDict(<<PyItem(ScoreKey, score), PyItem(SummaryKey, summary),
           PyItem(StrengthsKey, strengths), PyItem(MissingKey, missing),
           PyItem(VerdictKey, verdict)>>)

SampleJudgment ==
  Judgment(PyInt("72"), PyStr(<<"Solid backend experience">>),
           PyList(<<PyStr(<<"Go expertise">>)>>),
           PyList(<<PyStr(<<"5 years seniority">>)>>),
           PyStr(<<"possible match">>))

\* response texts: a judgment as requested, objects that are not the
\* requested shape, JSON that is not an object, and text json.loads rejects
ResponseTexts ==
  { json_dump(SampleJudgment),
    <<LB, RB>>,
    <<LB, QUOTE, "strengths", QUOTE, COLON, "null", RB>>,
    <<LB, QUOTE, "error", QUOTE, COLON, QUOTE, "x", QUOTE, COMMA,
      QUOTE, "match_score", QUOTE, COLON, "5", RB>>,
    <<LB, QUOTE, "match_score", QUOTE, COLON, "NaN", RB>>,
    <<LS, RS>>,
    <<"Sorry", QUOTE, BSL, LF>>,
    <<LB, QUOTE, "match_score", QUOTE, COLON, "72", COMMA, RB>> }

ServiceOutcomes ==
  {ServiceText(t) : t \in ResponseTexts}
  \cup {ServiceNone, ServiceRaises(<<"Connection error.">>),
        ServiceRaises(<<"Error code: 401 - invalid api key">>)}

Timestamps == {"2025-01-01 10:00", "2025-01-01 10:01"}

\* ------------------------------------------------------------------------
\* State
\* ------------------------------------------------------------------------
VARIABLES
  API_KEY,          \* os.getenv("OPENAI_API_KEY"): "None" or "set"
  files,            \* sample_inputs: name -> directory entry
  outputs,          \* outputs: path -> file
  prompt_md,        \* the file prompt.md
  pc,               \* where main() is
  jd_texts,         \* main's locals
  cv_fails,
  i,                \* position of the for loop in cv_fails
  cv_texts,
  prompts,
  rezultata_teksts, \* what the completion call did for the current candidate
  rezultats,
  exc,              \* the exception that ended main(), "" if none
  printed,          \* the final status line is on the console
  trace             \* history: the steps taken, as [ev, idx]

vars == <<API_KEY, files, outputs, prompt_md, pc, jd_texts, cv_fails, i,
          cv_texts, prompts, rezultata_teksts, rezultats, exc, printed, trace>>

Event(ev, idx) == [ev |-> ev, idx |-> idx]

\* every ordering of a finite set
Perms(S) ==
  {f \in [1..Cardinality(S) -> S] :
     \A a, b \in 1..Cardinality(S) : a # b => f[a] # f[b]}

InitOutputs(prior) == [p \in OutputPaths |-> IF prior THEN Stale ELSE FileAbsent]
InitPrompt(prior) == IF prior THEN Stale ELSE FileAbsent

\* the state of the machine when main() is entered
Entry ==
  /\ pc = "start"
  /\ jd_texts = <<>>
  /\ cv_fails = <<>>
  /\ i = 0
  /\ cv_texts = <<>>
  /\ prompts = <<>>
  /\ rezultata_teksts = ServiceNone
  /\ rezultats = PyNone
  /\ exc = ""
  /\ printed = FALSE
  /\ trace = <<>>

Init ==
  /\ API_KEY \in {"None", "set"}
  /\ files \in {f \in [DirNames -> UNION {CvStates(n) : n \in CvNames}
                                     \cup JdStates] :
                  /\ f[JdName] \in JdStates
                  /\ \A n \in CvNames : f[n] \in CvStates(n)
                  /\ Cardinality({n \in CvNames : f[n] # FileAbsent})
                       <= MaxCands}
  /\ \E prior \in BOOLEAN :
       /\ outputs = InitOutputs(prior)
       /\ prompt_md = InitPrompt(prior)
  /\ Entry

\* ------------------------------------------------------------------------
\* main()
\* ------------------------------------------------------------------------
\* a guard that never returns early
JdMissingNever(text) == FALSE

\* if not jd_texts
JdMissing(text) == text = <<>>
\* if not cv_texts
CvSkipped(text) == text = <<>>

Crash(e) ==
  /\ pc' = "crashed"
  /\ exc' = e

\* jd_texts = nolasit_failu(jd_cels); if not jd_texts: return
ReadJD ==
  /\ pc = "start"
  /\ LET r == nolasit_failu(files[JdName]) IN
       IF r.raised # ""
       THEN Crash(r.raised) /\ UNCHANGED jd_texts
       ELSE IF JdMissing(r.val)
       THEN pc' = "returned" /\ UNCHANGED <<jd_texts, exc>>
       ELSE pc' = "glob" /\ jd_texts' = r.val /\ UNCHANGED exc
  /\ UNCHANGED <<API_KEY, files, outputs, prompt_md, cv_fails, i, cv_texts,
                 prompts, rezultata_teksts, rezultats, printed, trace>>

\* cv_fails = [f.name for f in Path("sample_inputs").glob("cv*.txt")],
\* in whatever order the file system lists the entries
Glob ==
  /\ pc = "glob"
  /\ \E order \in Perms({n \in DirNames :
                           files[n] # FileAbsent /\ GlobMatch(n)}) :
       cv_fails' = order
  /\ i' = 1
  /\ pc' = "loop"
  /\ UNCHANGED <<API_KEY, files, outputs, prompt_md, jd_texts, cv_texts,
                 prompts, rezultata_teksts, rezultats, exc, printed, trace>>

\* for cv in cv_fails: cv_texts = nolasit_failu(cv_cels);
\* if not cv_texts: continue
NextCandidate ==
  /\ pc = "loop"
  /\ i <= Len(cv_fails)
  /\ LET r == nolasit_failu(files[cv_fails[i]]) IN
       IF r.raised # ""
       THEN Crash(r.raised) /\ UNCHANGED <<i, cv_texts, trace>>
       ELSE IF CvSkipped(r.val)
       THEN /\ i' = i + 1
            /\ trace' = Append(trace, Event("skip", i))
            /\ UNCHANGED <<pc, exc, cv_texts>>
       ELSE /\ cv_texts' = r.val
            /\ pc' = "prompt"
            /\ UNCHANGED <<i, exc, trace>>
  /\ UNCHANGED <<API_KEY, files, outputs, prompt_md, jd_texts, cv_fails,
                 prompts, rezultata_teksts, rezultats, printed>>

\* a prompt builder that creates prompt.md but never overwrites it
BuildPromptKeep ==
  /\ pc = "prompt"
  /\ prompts' = izveidot_promptu(jd_texts, cv_texts)
  /\ prompt_md' = IF prompt_md = FileAbsent
                  THEN FileOf(izveidot_promptu(jd_texts, cv_texts))
                  ELSE prompt_md
  /\ trace' = Append(trace, Event("prompt", i))
  /\ pc' = "call"
  /\ UNCHANGED <<API_KEY, files, outputs, jd_texts, cv_fails, i, cv_texts,
                 rezultata_teksts, rezultats, exc, printed>>

\* prompts = izveidot_promptu(jd_texts, cv_texts), which also writes prompt.md
BuildPrompt ==
  /\ pc = "prompt"
  /\ prompts' = izveidot_promptu(jd_texts, cv_texts)
  /\ prompt_md' = FileOf(izveidot_promptu(jd_texts, cv_texts))
  /\ trace' = Append(trace, Event("prompt", i))
  /\ pc' = "call"
  /\ UNCHANGED <<API_KEY, files, outputs, jd_texts, cv_fails, i, cv_texts,
                 rezultata_teksts, rezultats, exc, printed>>

\* rezultats = izsaukt_modeli(prompts); the request is issued once the
\* client exists
CallModel ==
  /\ pc = "call"
  /\ \E outcome \in ServiceOutcomes :
       LET r == izsaukt_modeli(API_KEY, outcome) IN
       IF r.raised # ""
       THEN Crash(r.raised) /\ UNCHANGED <<rezultata_teksts, rezultats, trace>>
       ELSE /\ rezultata_teksts' = outcome
            /\ rezultats' = r.val
            /\ trace' = Append(trace, Event("request", i))
            /\ pc' = "json"
            /\ UNCHANGED exc
  /\ UNCHANGED <<API_KEY, files, outputs, prompt_md, jd_texts, cv_fails, i,
                 cv_texts, prompts, printed>>

\* saglabat_json(rezultats, json_fails)
SaveJson ==
  /\ pc = "json"
  /\ outputs' = [outputs EXCEPT ![JsonPath(cv_fails[i])] =
                   FileOf(saglabat_json(rezultats))]
  /\ trace' = Append(trace, Event("json", i))
  /\ pc' = "md"
  /\ UNCHANGED <<API_KEY, files, prompt_md, jd_texts, cv_fails, i, cv_texts,
                 prompts, rezultata_teksts, rezultats, exc, printed>>

\* genereet_parskatu(rezultats, md_fails), then the next iteration
WriteReport ==
  /\ pc = "md"
  /\ \E now \in Timestamps :
       LET r == genereet_parskatu(rezultats, now) IN
       IF r.raised # ""
       THEN Crash(r.raised) /\ UNCHANGED <<outputs, i, trace>>
       ELSE /\ outputs' = [outputs EXCEPT ![MdPath(cv_fails[i])] = FileOf(r.val)]
            /\ trace' = Append(trace, Event("md", i))
            /\ i' = i + 1
            /\ pc' = "loop"
            /\ UNCHANGED exc
  /\ UNCHANGED <<API_KEY, files, prompt_md, jd_texts, cv_fails, cv_texts,
                 prompts, rezultata_teksts, rezultats, printed>>

\* the loop is over: the final status line is printed
Finish ==
  /\ pc = "loop"
  /\ i > Len(cv_fails)
  /\ printed' = TRUE
  /\ pc' = "done"
  /\ UNCHANGED <<API_KEY, files, outputs, prompt_md, jd_texts, cv_fails, i,
                 cv_texts, prompts, rezultata_teksts, rezultats, exc, trace>>

Next ==
  \/ ReadJD
  \/ Glob
  \/ NextCandidate
  \/ BuildPrompt
  \/ CallModel
  \/ SaveJson
  \/ WriteReport
  \/ Finish

Spec == Init /\ [][Next]_vars

\* ------------------------------------------------------------------------
\* genereet_parskatu on its own: main() stands right after saglabat_json
\* with an arbitrary result whose present fields have the types of the
\* requested schema
\* ------------------------------------------------------------------------
RECURSIVE SeqsUpTo(_, _)
SeqsUpTo(S, n) ==
  IF n = 0 THEN {<<>>}
  ELSE SeqsUpTo(S, n - 1)
       \cup {Append(q, x) : q \in {r \in SeqsUpTo(S, n - 1) : Len(r) = n - 1},
                            x \in S}

ItemLists == {PyList([n \in 1..Len(q) |-> PyStr(<<q[n]>>)]) :
                q \in SeqsUpTo(ItemTexts, MaxItems)}

\* a field is absent (no item) or present with a value of its type
Opt(k, values) == {<<>>} \cup {<<PyItem(k, v)>> : v \in values}

RenderInputs ==
  {PyDict(e \o sc \o su \o st \o mi \o ve) :
     e \in {<<>>, ErrorRecord(<<"Connection error.">>).items,
            InvalidJsonRecord(<<"Sorry">>).items},
     sc \in Opt(ScoreKey, {PyInt("0"), PyInt("72")}),
     su \in Opt(SummaryKey, {PyStr(<<>>), PyStr(<<"Solid backend experience">>)}),
     st \in Opt(StrengthsKey, ItemLists),
     mi \in Opt(MissingKey, ItemLists),
     ve \in Opt(VerdictKey, {PyStr(<<l>>) : l \in Labels})}

InitRender ==
  /\ API_KEY = "set"
  /\ files = [n \in DirNames |->
                IF n = JdName THEN FileOf(<<"Senior backend engineer, 5 years Go", LF>>)
                ELSE IF n = Cv1 THEN FileOf(<<LF, "CV of ">> \o Cv1 \o <<SP>>)
                ELSE FileAbsent]
  /\ jd_texts = Strip(files[JdName].content)
  /\ cv_fails = <<Cv1>>
  /\ i = 1
  /\ cv_texts = Strip(files[Cv1].content)
  /\ prompts = izveidot_promptu(jd_texts, cv_texts)
  /\ prompt_md = FileOf(prompts)
  /\ rezultats \in RenderInputs
  /\ rezultata_teksts = ServiceText(json_dump(rezultats))
  /\ \E prior \in BOOLEAN :
       outputs = [InitOutputs(prior) EXCEPT ![JsonPath(Cv1)] =
                    FileOf(saglabat_json(rezultats))]
  /\ trace = <<Event("prompt", 1), Event("request", 1), Event("json", 1)>>
  /\ pc = "md"
  /\ exc = ""
  /\ printed = FALSE

NextRender ==
  \/ WriteReport
  \/ Finish

SpecRender == InitRender /\ [][NextRender]_vars

\* ------------------------------------------------------------------------
\* Vocabulary of the properties
\* ------------------------------------------------------------------------
Terminal == pc \in {"done", "returned", "crashed"}

Count(ev, idx) ==
  Cardinality({n \in 1..Len(trace) : trace[n] = Event(ev, idx)})

\* the file can be opened and read and its trimmed text is not empty
NonEmptyFile(f) == f.st = "file" /\ Strip(f.content) # <<>>
JdLoaded == NonEmptyFile(files[JdName])
JdAbsent == files[JdName].st \in {"absent", "dangling"}

\* exceptions that come from the completion step and the rendering of its
\* result
ServiceFaults == {"OpenAIError", "AttributeError", "TypeError"}

JudgmentKeys == {ScoreKey, SummaryKey, StrengthsKey, MissingKey, VerdictKey}
IsJudgmentShape(v) ==
  /\ v.kind = "dict"
  /\ \A k \in JudgmentKeys : HasKey(v, k)
  /\ ~HasKey(v, ErrorKey)
IsErrorShape(v) ==
  /\ v.kind = "dict"
  /\ HasKey(v, ErrorKey)
  /\ \A k \in JudgmentKeys : ~HasKey(v, k)

\* reading a report back: the units strictly between two headings
IndexOf(doc, u) ==
  CHOOSE n \in 1..Len(doc) : doc[n] = u /\ \A m \in 1..(n - 1) : doc[m] # u
Between(doc, a, b) == SubSeq(doc, IndexOf(doc, a) + 1, IndexOf(doc, b) - 1)
After(doc, a) == SubSeq(doc, IndexOf(doc, a) + 1, Len(doc))

RECURSIVE Bullets(_)
Bullets(xs) ==
  IF xs = <<>> THEN <<>>
  ELSE <<"- ">> \o Head(xs).s \o <<LF>> \o Bullets(Tail(xs))

ShownScalar(d, k, placeholder) ==
  IF HasKey(d, k) THEN DictGet(d, k, PyNone).s ELSE placeholder
ShownList(d, k) ==
  IF HasKey(d, k) /\ DictGet(d, k, PyNone).items # <<>>
  THEN Bullets(DictGet(d, k, PyNone).items) ELSE NoItems

\* ------------------------------------------------------------------------
\* Properties
\* ------------------------------------------------------------------------

\* C1: when a run has ended, every matched candidate with non-empty text
\* has had exactly one JSON report and exactly one Markdown report written,
\* whatever the completion service answered.  (Stated for runs with a job
\* description, a credential, no unreadable file and responses that are
\* JSON objects whenever they are JSON.)
C1_OneReportPair ==
  (Terminal /\ JdLoaded /\ API_KEY = "set" /\ exc # "AttributeError"
     /\ \A n \in DirNames : files[n].st # "unreadable")
  => \A idx \in 1..Len(cv_fails) :
       NonEmptyFile(files[cv_fails[idx]])
       => /\ Count("json", idx) = 1
          /\ Count("md", idx) = 1
          /\ outputs[JsonPath(cv_fails[idx])].st = "file"
          /\ outputs[MdPath(cv_fails[idx])].st = "file"

\* C2: izsaukt_modeli always returns to its caller: from the call, main()
\* goes on to write the JSON report, it never ends with an exception there.
C2_NoFaultEscapes == [][pc = "call" => pc' = "json"]_vars

\* C3: with the job-description file absent, the run returns early: no
\* prompt is built, no request is issued and no output file is created or
\* modified, whatever candidate files the directory holds.
C3_NoJdNoWork ==
  /\ [](JdAbsent => /\ pc \in {"start", "returned"}
                    /\ trace = <<>>
                    /\ prompts = <<>>
                    /\ exc = "")
  /\ [][JdAbsent => outputs' = outputs /\ prompt_md' = prompt_md]_vars

C3_Witness ==
  /\ JdAbsent
  /\ pc = "returned"
  /\ \E n \in CvNames : NonEmptyFile(files[n])

\* C4: with the job description present (and non-empty), a run that has
\* ended has printed the final status line, whatever happened to the
\* candidates.  (Stated for runs not ended by a fault of the completion
\* step.)
C4_AlwaysCompletes ==
  (Terminal /\ JdLoaded /\ exc \notin ServiceFaults) => printed

\* C5: a missing, unreadable or empty candidate is skipped (no prompt, no
\* request, no report for it) and every other candidate of the run gets
\* its reports, wherever the skipped one stands in the order.  (Stated
\* for runs not ended by a fault of the completion step.)
C5_SkipOnly ==
  (Terminal /\ JdLoaded /\ exc \notin ServiceFaults)
  => \A idx \in 1..Len(cv_fails) :
       IF NonEmptyFile(files[cv_fails[idx]])
       THEN Count("json", idx) = 1 /\ Count("md", idx) = 1
       ELSE \A ev \in {"prompt", "request", "json", "md"} : Count(ev, idx) = 0

\* C6: when the response text is not valid JSON, the JSON report written
\* for the candidate is an error record whose raw text, read back from the
\* report, is the response text.
C6_RawRoundTrip ==
  (pc = "md" /\ rezultata_teksts.t = "text"
     /\ ~Decode(rezultata_teksts.body, {}).ok)
  => LET r == json_loads(outputs[JsonPath(cv_fails[i])].content) IN
       /\ r.ok
       /\ r.val.kind = "dict"
       /\ HasKey(r.val, ErrorKey)
       /\ DictGet(r.val, RawKey, PyNone) = PyStr(rezultata_teksts.body)

\* C7: for a result lacking any subset of the five fields, rendering does
\* not fail, the Markdown file is written, each missing field and each
\* empty list shows its placeholder and each present field shows its value.
C7_RenderTotal ==
  /\ pc # "crashed"
  /\ pc \in {"loop", "done"}
     => LET f == outputs[MdPath(cv_fails[1])]
            doc == f.content
            d == rezultats
        IN /\ f.st = "file"
           /\ Between(doc, ScoreLabel, SummaryHeading)
                = ShownScalar(d, ScoreKey, NoScore) \o Rule
           /\ Between(doc, SummaryHeading, StrengthsHeading)
                = <<LF>> \o ShownScalar(d, SummaryKey, NoSummary) \o Rule
           /\ Between(doc, StrengthsHeading, MissingHeading)
                = <<LF>> \o ShownList(d, StrengthsKey) \o Rule
           /\ Between(doc, MissingHeading, VerdictHeading)
                = <<LF>> \o ShownList(d, MissingKey) \o Rule
           /\ After(doc, VerdictHeading)
                = <<LF, "**">> \o ShownScalar(d, VerdictKey, NoVerdict)
                  \o <<"**">>

C7_Witness ==
  /\ pc = "done"
  /\ HasKey(rezultats, ScoreKey)
  /\ ~HasKey(rezultats, SummaryKey)
  /\ HasKey(rezultats, StrengthsKey)
  /\ DictGet(rezultats, StrengthsKey, PyNone).items = <<>>
  /\ ~HasKey(rezultats, VerdictKey)
  /\ outputs[MdPath(cv_fails[1])].st = "file"

\* C8: every value izsaukt_modeli returns is either a judgment with the
\* five fields or an error record with the error marker, never both and
\* never neither.  (Stated for responses that decode to a JSON object.)
C8_TaggedUnion ==
  (pc \in {"json", "md"} /\ rezultats.kind = "dict")
  => (IsJudgmentShape(rezultats) /\ ~IsErrorShape(rezultats))
     \/ (IsErrorShape(rezultats) /\ ~IsJudgmentShape(rezultats))

\* C9: writing the reports of one candidate leaves the JSON and Markdown
\* reports already written for any other matched candidate as they were.
C9_Independent ==
  [][\A j \in 1..Len(cv_fails) :
       (pc \in {"json", "md"} /\ j # i /\ Count("md", j) = 1)
       => /\ outputs'[JsonPath(cv_fails[j])] = outputs[JsonPath(cv_fails[j])]
          /\ outputs'[MdPath(cv_fails[j])] = outputs[MdPath(cv_fails[j])]]_vars

\* C10: candidates are handled one after another, each as prompt, one
\* request, JSON report, Markdown report, all four before the next
\* candidate starts; a skipped candidate causes no request and leaves
\* prompt.md alone, so prompt.md holds the prompt of the last candidate
\* that was not skipped.  Every candidate the loop has moved past has
\* either all four steps exactly once or exactly one skip.
LastPrompt ==
  LET P == {n \in 1..Len(trace) : trace[n].ev = "prompt"} IN
  IF P = {} THEN 0
  ELSE trace[CHOOSE n \in P : \A m \in P : m <= n].idx

C10_Sequential ==
  /\ trace # <<>> => trace[1].idx = 1 /\ trace[1].ev \in {"prompt", "skip"}
  /\ \A n \in 1..(Len(trace) - 1) :
       LET a == trace[n]
           b == trace[n + 1]
       IN \/ /\ b.idx = a.idx
             /\ <<a.ev, b.ev>> \in {<<"prompt", "request">>,
                                    <<"request", "json">>, <<"json", "md">>}
          \/ /\ b.idx = a.idx + 1
             /\ a.ev \in {"md", "skip"}
             /\ b.ev \in {"prompt", "skip"}
  /\ IF LastPrompt = 0
     THEN prompt_md \in {Stale, FileAbsent}
     ELSE prompt_md =
            FileOf(izveidot_promptu(Strip(files[JdName].content),
                                    Strip(files[cv_fails[LastPrompt]].content)))
  /\ \A idx \in 1..(i - 1) :
          IF NonEmptyFile(files[cv_fails[idx]])
          THEN \A ev \in {"prompt", "request", "json", "md"} :
                 Count(ev, idx) = 1
          ELSE /\ Count("skip", idx) = 1
               /\ Count("request", idx) = 0
               /\ LastPrompt # idx

C10_Witness ==
  /\ pc = "done"
  /\ Len(cv_fails) = 2
  /\ Count("md", 1) = 1
  /\ Count("skip", 2) = 1
  /\ prompt_md.st = "file"
  /\ prompt_md # Stale

====
